---- MODULE Spec2Model ----
(***************************************************************************)
(* The Stock Risk Analyzer view-controller of src/src/App.js: the four     *)
(* useState fields, the onChange handler of the ticker input, the async    *)
(* handler handleAnalyze (its synchronous part up to the await, and its    *)
(* continuation when the axios promise settles), and the render function.  *)
(***************************************************************************)
EXTENDS Integers, Sequences, FiniteSets, TLC

\* ---------------------------------------------------------------- bounds
\* Longest ticker text typed into the input.
MaxLen == 1
\* Number of handleAnalyze invocations in a run.
MaxCalls == 2

\* ---------------------------------------------------------------- values
\* Characters of the ticker text: a whitespace character and a letter.
Chars == {" ", "a"}

RECURSIVE StringsUpTo(_)
StringsUpTo(n) ==
  IF n = 0 THEN {<<>>}
  ELSE LET shorter == StringsUpTo(n - 1)
       IN  shorter \cup {Append(s, c) : s \in shorter, c \in Chars}

Tickers == StringsUpTo(MaxLen)

\* String.prototype.toUpperCase, character by character.
UpperChar(c) == IF c = "a" THEN "A" ELSE c
ToUpperCase(s) == [i \in 1..Len(s) |-> UpperChar(s[i])]

\* JavaScript values held in `error`: null or a string.
Null == [kind |-> "null", s |-> ""]
Undefined == [kind |-> "undefined", s |-> ""]
Str(s) == [kind |-> "string", s |-> s]

ValidationMessage == "Please enter a stock ticker."
FallbackMessage == "An error occurred."

\* Response bodies (response.data), one record shape for every JSON value:
\* kind is the JavaScript type, has the keys of an object, and the other
\* fields the values under those keys.
Body(kind, text, has, metrics, risk, plot, err) ==
  [kind |-> kind, text |-> text, has |-> has, metrics |-> metrics,
   risk |-> risk, plot |-> plot, error |-> err]

NullBody == Body("null", "", {}, <<>>, "", "", "")
TextBody == Body("string", "<html>", {}, <<>>, "", "", "")
EmptyObject == Body("object", "", {}, <<>>, "", "", "")
ErrorObject(msg) == Body("object", "", {"error"}, <<>>, "", "", msg)
HighRisk ==
  Body("object", "", {"metrics", "analysis", "plot"},
       << <<"volatility", "0.23">> >>, "High", "iVBORw0KG", "")
LowRisk ==
  Body("object", "", {"metrics", "analysis", "plot"},
       << <<"beta", "0.8">> >>, "Low", "R0lGODlh", "")

\* What the transport hands to handleAnalyze when the request settles:
\* no response at all (network error), or a status and a body.
Response(present, status, data) ==
  [present |-> present, status |-> status, data |-> data]

NetworkError == Response(FALSE, 0, NullBody)

Responses ==
  { Response(TRUE, 200, d) :
      d \in {HighRisk, LowRisk, EmptyObject, NullBody,
             ErrorObject("Ticker not found")} }
  \cup
  { NetworkError,
    Response(TRUE, 404, ErrorObject("Ticker not found")),
    Response(TRUE, 500, ErrorObject("")),
    Response(TRUE, 500, TextBody) }

\* ------------------------------------------------------- pure functions
\* JavaScript truthiness of a null/undefined/string value.
Truthy(v) == v.kind = "string" /\ v.s # ""

\* JavaScript truthiness of a response body.
TruthyBody(b) == b.kind = "object" \/ (b.kind = "string" /\ b.text # "")

\* a || b
OrElse(a, b) == IF Truthy(a) THEN a ELSE b

\* The validation as `ticker === null` would make it: every string passes.
ValidatesNonNull(t) == TRUE

\* `!ticker` is false: the ticker is a non-empty string.
Validates(t) == t # <<>>

\* The promise of axios.get rejects when there is no response or the status
\* is outside 2xx, and resolves with the response otherwise.
Rejects(resp) == ~resp.present \/ resp.status < 200 \/ resp.status > 299

\* The server message read at err.data?.error, a path no axios error has.
ServerErrorWrongPath(resp) == Undefined

\* err.response?.data?.error
ServerError(resp) ==
  IF resp.present /\ resp.data.kind = "object" /\ "error" \in resp.data.has
  THEN Str(resp.data.error)
  ELSE Undefined

\* err.response?.data?.error || "An error occurred."
ErrorMessage(resp) == OrElse(ServerError(resp), Str(FallbackMessage))

\* setAnalysis merging the new body into the previous one: the keys of
\* both, and the metrics of the new body after those of the previous one.
NextAnalysisMerged(prev, data) ==
  IF prev.kind = "object" /\ data.kind = "object"
  THEN [data EXCEPT !.has = prev.has \cup data.has,
                    !.metrics = prev.metrics \o data.metrics]
  ELSE data

\* setAnalysis(response.data): the next analysis given the previous one.
NextAnalysis(prev, data) == data

\* A validation branch that also calls setLoading(false) before returning.
LoadingResetOnInvalid(prev) == FALSE

\* loading after an invocation that fails validation: the branch returns
\* after setError and never calls setLoading.
LoadingAfterInvalid(prev) == prev

\* An invocation that sends its request without calling setError(null).
ErrorKeptAtStart(prev) == prev

\* setError(null) at the start of a validated invocation.
ErrorAtStart(prev) == Null

\* The error after a settlement when the try block also calls
\* setError(null) after setAnalysis.
ErrorClearedOnSuccess(prev, resp) ==
  IF Rejects(resp) THEN ErrorMessage(resp) ELSE Null

\* The error after a settlement: setError in the catch block on
\* rejection, and no call of setError on fulfilment.
ErrorAfterSettle(prev, resp) ==
  IF Rejects(resp) THEN ErrorMessage(resp) ELSE prev

\* setLoading(false) at the end of the try block instead of in finally:
\* a rejection leaves loading as it was.
LoadingClearedOnSuccessOnly(prev, resp) ==
  IF Rejects(resp) THEN prev ELSE FALSE

\* setLoading(false) in the finally block, on either path.
LoadingAfterSettle(prev, resp) == FALSE

\* An invocation that sends its GET twice.
NewRequestsTwice(id, t) == {[id |-> id, tk |-> t], [id |-> id + 1, tk |-> t]}

\* The requests one validated invocation sends: one GET for the ticker.
NewRequests(id, t) == {[id |-> id, tk |-> t]}

\* An invocation that aborts the requests still in flight before sending.
InFlightReplaced(reqs, new) == new

\* The requests in flight once those of an invocation are sent: the
\* handler keeps no handle on earlier requests and leaves them alone.
InFlightAfterSend(reqs, new) == reqs \cup new

\* A button rendered without its disabled attribute.
NeverDisabled(l) == FALSE

\* disabled={loading} on the button.
Disabled(l) == l

\* The body of the render function throws a TypeError when analysis is
\* truthy but analysis.analysis or analysis.metrics is undefined.
RenderThrows(a) ==
  /\ TruthyBody(a)
  /\ ~(a.kind = "object" /\ {"analysis", "metrics"} \subseteq a.has)

\* The rendered output of a state, as the values of its elements.
NotShown == <<>>
Render(st) ==
  IF RenderThrows(st.analysis)
  THEN [threw |-> TRUE, input |-> <<>>, disabled |-> FALSE, button |-> "",
        error |-> NotShown, heading |-> NotShown, risk |-> NotShown,
        items |-> NotShown, img |-> NotShown]
  ELSE [threw |-> FALSE,
        input |-> st.ticker,
        disabled |-> Disabled(st.loading),
        button |-> IF st.loading THEN "Analyzing..." ELSE "Analyze",
        error |-> IF Truthy(st.error) THEN <<st.error.s>> ELSE NotShown,
        heading |-> IF TruthyBody(st.analysis)
                    THEN <<"Risk Analysis for ", ToUpperCase(st.ticker)>>
                    ELSE NotShown,
        risk |-> IF TruthyBody(st.analysis)
                 THEN <<st.analysis.risk>> ELSE NotShown,
        items |-> IF TruthyBody(st.analysis)
                  THEN st.analysis.metrics ELSE NotShown,
        img |-> IF TruthyBody(st.analysis)
                THEN <<"data:image/png;base64,",
                       IF "plot" \in st.analysis.has
                       THEN st.analysis.plot ELSE "undefined">>
                ELSE NotShown]

\* ---------------------------------------------------------------- state
VARIABLES
  ticker,    \* useState(""): the text of the input
  analysis,  \* useState(null): the last response body stored
  error,     \* useState(null): the message shown
  loading,   \* useState(false)
  mounted,   \* the component is rendered (no render has thrown)
  inflight,  \* the requests sent whose promise has not settled
  issued,    \* history: number of requests sent so far
  calls,     \* history: number of handleAnalyze invocations so far
  settled,   \* history: the settlements so far, in the order they happened
  last,      \* history: the step taken last
  shown,     \* history: the request whose response analysis holds
  run        \* history: progress of two back-to-back runs for one ticker

vars == <<ticker, analysis, error, loading, mounted, inflight, issued,
          calls, settled, last, shown, run>>

\* The four useState fields as one record.
View(t, a, e, l) == [ticker |-> t, analysis |-> a, error |-> e, loading |-> l]
State == View(ticker, analysis, error, loading)

\* The record of a step: the operation, the request it sent or settled
\* (0 for none), the response it processed, and whether the component was
\* mounted when it ran.
Step(op, id, resp, live) ==
  [op |-> op, id |-> id, resp |-> resp, live |-> live]

\* run.phase: 0 nothing under way; 1 a request sent; 2 that request
\* fulfilled in the very next step (snap is the state it left); 3 a request
\* for the same ticker sent in the very next step; 4 that request fulfilled
\* with the same body in the very next step.
NoRequest == [id |-> 0, tk |-> <<>>]

NoRun ==
  [phase |-> 0, id |-> 0, tk |-> <<>>, data |-> NullBody,
   snap |-> View(<<>>, NullBody, Null, FALSE)]

Init ==
  /\ ticker = <<>>
  /\ analysis = NullBody
  /\ error = Null
  /\ loading = FALSE
  /\ mounted = TRUE
  /\ inflight = {}
  /\ issued = 0
  /\ calls = 0
  /\ settled = <<>>
  /\ last = Step("init", 0, NetworkError, TRUE)
  /\ shown = NoRequest
  /\ run = NoRun

\* onChange of the input: setTicker(e.target.value).
SetTicker(v) ==
  /\ mounted
  /\ v # ticker
  /\ ticker' = v
  /\ last' = Step("edit", 0, NetworkError, TRUE)
  /\ run' = NoRun
  /\ UNCHANGED <<analysis, error, loading, mounted, inflight, issued,
                 calls, settled, shown>>

\* handleAnalyze up to the await: the validation, and for a valid ticker
\* setError(null), setLoading(true) and the GET request.
Analyze ==
  /\ mounted
  /\ calls < MaxCalls
  /\ calls' = calls + 1
  /\ IF ~Validates(ticker)
     THEN /\ error' = Str(ValidationMessage)
          /\ last' = Step("analyze", 0, NetworkError, TRUE)
          /\ run' = NoRun
          /\ loading' = LoadingAfterInvalid(loading)
          /\ UNCHANGED <<inflight, issued>>
     ELSE LET new == NewRequests(issued + 1, ticker)
          IN  /\ error' = ErrorAtStart(error)
              /\ loading' = TRUE
              /\ inflight' = InFlightAfterSend(inflight, new)
              /\ issued' = issued + Cardinality(new)
              /\ last' = Step("analyze", issued + 1, NetworkError, TRUE)
              /\ run' = IF run.phase \in {2, 4} /\ run.tk = ticker
                        THEN [run EXCEPT !.phase = 3, !.id = issued + 1]
                        ELSE [NoRun EXCEPT !.phase = 1, !.id = issued + 1,
                                           !.tk = ticker]
  /\ UNCHANGED <<ticker, analysis, mounted, settled, shown>>

\* handleAnalyze after the await, when the promise of request r settles
\* with resp: setAnalysis on fulfilment, setError on rejection, then
\* setLoading(false); the updates are rendered together. On a component
\* that a throwing render has unmounted the updates do nothing.
Settle(r, resp) ==
  /\ r \in inflight
  /\ inflight' = inflight \ {r}
  /\ IF mounted
     THEN /\ analysis' = IF Rejects(resp) THEN analysis
                         ELSE NextAnalysis(analysis, resp.data)
          /\ error' = ErrorAfterSettle(error, resp)
          /\ loading' = LoadingAfterSettle(loading, resp)
          /\ mounted' = ~RenderThrows(analysis')
     ELSE UNCHANGED <<analysis, error, loading, mounted>>
  /\ last' = Step("settle", r.id, resp, mounted)
  /\ shown' = IF mounted /\ ~Rejects(resp) THEN r ELSE shown
  /\ settled' = Append(settled, [id |-> r.id, ok |-> ~Rejects(resp),
                                 data |-> resp.data])
  /\ run' = IF mounted /\ ~Rejects(resp) /\ run.id = r.id /\ run.phase = 1
            THEN [run EXCEPT !.phase = 2, !.data = resp.data,
                             !.snap = View(ticker, analysis', error',
                                           loading')]
            ELSE IF /\ mounted /\ ~Rejects(resp) /\ run.id = r.id
                    /\ run.phase = 3 /\ run.data = resp.data
                 THEN [run EXCEPT !.phase = 4]
                 ELSE NoRun
  /\ UNCHANGED <<ticker, issued, calls>>

Next ==
  \/ \E v \in Tickers : SetTicker(v)
  \/ Analyze
  \/ \E r \in inflight, resp \in Responses : Settle(r, resp)

Spec == Init /\ [][Next]_vars

\* Every request sent gets its response or its failure from the transport.
FairSpec ==
  Spec /\ WF_vars(\E r \in inflight, resp \in Responses : Settle(r, resp))

\* The runs in which requests do not overlap: a validated invocation
\* happens only with no request in flight (one that fails validation may
\* happen at any time).
AnalyzeSerial ==
  /\ Validates(ticker) => inflight = {}
  /\ Analyze

NextSerial ==
  \/ \E v \in Tickers : SetTicker(v)
  \/ AnalyzeSerial
  \/ \E r \in inflight, resp \in Responses : Settle(r, resp)

SpecSerial == Init /\ [][NextSerial]_vars

\* The runs in which handleAnalyze is invoked by the button alone, which
\* is rendered with disabled={loading}.
AnalyzeByButton ==
  /\ ~Render(State).disabled
  /\ Analyze

NextButton ==
  \/ \E v \in Tickers : SetTicker(v)
  \/ AnalyzeByButton
  \/ \E r \in inflight, resp \in Responses : Settle(r, resp)

SpecButton == Init /\ [][NextButton]_vars

\* ---------------------------------------------------------------- claims
\* A ticker that is empty or holds only whitespace.
IsBlank(t) == \A i \in 1..Len(t) : t[i] = " "

\* A body of the expected shape: an object with metrics, analysis and plot.
WellShaped(b) ==
  b.kind = "object" /\ {"metrics", "analysis", "plot"} \subseteq b.has

\* A response that carries a field at response.body.error.
CarriesError(resp) ==
  resp.present /\ resp.data.kind = "object" /\ "error" \in resp.data.has

\* The step is an invocation of handleAnalyze / a settlement of a request.
AnalyzeStep == calls' = calls + 1
SettleStep == Len(settled') = Len(settled) + 1

\* The last step settled a request on the mounted component.
Settled == last.op = "settle" /\ last.live

\* C1 as stated: an invocation with an empty or whitespace-only ticker sets
\* error to the validation message and sends no request.
C1_BlankRejected ==
  [][(AnalyzeStep /\ IsBlank(ticker)) =>
       (/\ error' = Str(ValidationMessage)
        /\ issued' = issued
        /\ inflight' = inflight)]_vars

\* C1 amended: an invocation with the empty ticker sets error to the
\* validation message and sends no request; an invocation with any
\* non-empty ticker, whitespace-only ones included, clears error and sends
\* one request.
C1_EmptyRejected ==
  [][AnalyzeStep =>
       IF ticker = <<>>
       THEN /\ error' = Str(ValidationMessage)
            /\ issued' = issued
            /\ inflight' = inflight
       ELSE /\ error' = Null
            /\ issued' = issued + 1
            /\ inflight' # inflight]_vars

C1_Witness ==
  /\ last.op = "analyze" /\ last.id = 0
  /\ ticker = <<>>
  /\ error = Str(ValidationMessage)
  /\ issued = 0 /\ inflight = {}

\* C2 as stated: in every state of the mounted component loading is true
\* exactly when some request sent has not been processed yet.
C2_LoadingIffInFlight == mounted => (loading <=> inflight # {})

\* C3 as stated: after a failed settlement error is the field at
\* response.body.error whenever the response carries it, whatever the
\* string, and the fallback message otherwise.
C3_ErrorFieldWhatever ==
  (Settled /\ Rejects(last.resp)) =>
    error = IF CarriesError(last.resp)
            THEN Str(last.resp.data.error)
            ELSE Str(FallbackMessage)

\* C3 amended: after a failed settlement error is the field at
\* response.body.error whenever the response carries it as a non-empty
\* string, and the fallback message for every other failure (no response,
\* no such field, an empty string there, an unparseable body).
C3_ErrorFieldNonEmpty ==
  (Settled /\ Rejects(last.resp)) =>
    error = IF CarriesError(last.resp) /\ last.resp.data.error # ""
            THEN Str(last.resp.data.error)
            ELSE Str(FallbackMessage)

C3_Witness ==
  /\ Settled /\ Rejects(last.resp)
  /\ CarriesError(last.resp)
  /\ error = Str("Ticker not found")

\* C4 as stated: after a 2xx settlement whose body lacks the expected
\* shape, error is set and analysis is not that body.
C4_MalformedIsError ==
  (Settled /\ ~Rejects(last.resp) /\ ~WellShaped(last.resp.data)) =>
    (Truthy(error) /\ analysis # last.resp.data)

\* C5: a successful settlement replaces analysis by the response body, with
\* nothing of the previous analysis kept, and leaves error as it was.
C5_ReplacedErrorKept ==
  [][(SettleStep /\ mounted /\ ~Rejects(last'.resp)) =>
       (analysis' = last'.resp.data /\ error' = error)]_vars

C5_Witness ==
  /\ Settled /\ ~Rejects(last.resp)
  /\ analysis = last.resp.data
  /\ Truthy(error)

\* C6: a step sends one request when it is an invocation with a ticker
\* that passes validation and none otherwise (no settlement, failed or
\* not, sends one), and every request sent is in flight or has settled
\* exactly once.
C6_OneRequestPerValidCall ==
  /\ [][issued' = issued
                  + (IF AnalyzeStep /\ ticker # <<>> THEN 1 ELSE 0)]_vars
  /\ [](Cardinality(inflight) + Len(settled) = issued)

C6_Witness ==
  /\ calls = 1 /\ issued = 1
  /\ Len(settled) = 1 /\ ~settled[1].ok
  /\ inflight = {}
  /\ last.op = "edit"

\* C7: when two runs for the same ticker follow each other directly, each
\* an invocation and then its fulfilment with the same body, the state and
\* the rendered output after the second are those after the first.
C7_Idempotent ==
  run.phase = 4 => (State = run.snap /\ Render(State) = Render(run.snap))

C7_Witness ==
  /\ run.phase = 4
  /\ mounted
  /\ WellShaped(analysis)
  /\ Len(settled) = 2

\* C8 as stated: whenever an analysis is displayed, the heading names the
\* upper-cased ticker of the request whose response is displayed.
C8_HeadingNamesRequest ==
  (mounted /\ TruthyBody(analysis)) =>
    Render(State).heading = <<"Risk Analysis for ", ToUpperCase(shown.tk)>>

\* C9: every settlement leaves loading false, and once the invocations
\* have stopped and the requests sent have settled loading is false for
\* good.
C9_SettlesToIdle ==
  /\ [](Settled => ~loading)
  /\ <>[](~loading)

C9_Witness ==
  /\ Settled /\ Rejects(last.resp)
  /\ ~loading
  /\ inflight = {}
  /\ calls = MaxCalls

\* The last fulfilment among the settlements so far (0 for none).
LastOk ==
  IF \E i \in DOMAIN settled : settled[i].ok
  THEN CHOOSE i \in DOMAIN settled :
         settled[i].ok /\ \A j \in DOMAIN settled : j > i => ~settled[j].ok
  ELSE 0

\* C10: no request sent is cancelled or held back (each is in flight until
\* it settles), and analysis is the body of the fulfilment that happened
\* last, whatever the order in which the requests were sent.
C10_LastSettledWins ==
  /\ \A id \in 1..issued :
       \/ \E r \in inflight : r.id = id
       \/ \E i \in DOMAIN settled : settled[i].id = id
  /\ (mounted /\ LastOk # 0) => analysis = settled[LastOk].data

C10_Witness ==
  /\ mounted
  /\ Len(settled) = 2
  /\ settled[1].id = 2 /\ settled[1].ok
  /\ settled[2].id = 1 /\ settled[2].ok
  /\ settled[1].data # settled[2].data
  /\ analysis = settled[2].data

\* C11 as stated: analysis changes only in a successful settlement (not
\* in a validation failure, a dispatch, a failed settlement or an edit of
\* the ticker), and once analysis is present it is never absent again.
C11_OnlySuccessNeverAbsent ==
  [][/\ analysis' # analysis => (SettleStep /\ ~Rejects(last'.resp))
     /\ TruthyBody(analysis) => TruthyBody(analysis')]_vars

\* C12: an invocation that fails validation (the ticker is empty) sets
\* error to the validation message and changes nothing else: loading keeps
\* its value, also with a request in flight, and ticker, analysis and the
\* requests in flight are as before.
C12_InvalidChangesOnlyError ==
  [][(AnalyzeStep /\ ticker = <<>>) =>
       (/\ error' = Str(ValidationMessage)
        /\ loading' = loading
        /\ ticker' = ticker
        /\ analysis' = analysis
        /\ mounted' = mounted
        /\ inflight' = inflight)]_vars

C12_Witness ==
  /\ last.op = "analyze" /\ last.id = 0
  /\ error = Str(ValidationMessage)
  /\ loading
  /\ inflight # {}

\* C13 as stated: a validated invocation clears error before its request
\* is sent; and in the runs where requests do not overlap error is absent
\* whenever loading is true and after every successful settlement.
C13_NoErrorWhileLoading ==
  /\ [][(AnalyzeStep /\ ticker # <<>>) => error' = Null]_vars
  /\ [](loading => ~Truthy(error))
  /\ []((Settled /\ ~Rejects(last.resp)) => ~Truthy(error))

\* C13 amended: a validated invocation clears error before its request is
\* sent; and in the runs where requests do not overlap the only error that
\* can be present while loading is true, or after a successful settlement,
\* is the validation message of an invocation made with an empty ticker
\* while the request was in flight.
C13_OnlyValidationErrorWhileLoading ==
  /\ [][(AnalyzeStep /\ ticker # <<>>) => error' = Null]_vars
  /\ [](loading => error \in {Null, Str(ValidationMessage)})
  /\ []((Settled /\ ~Rejects(last.resp)) =>
          error \in {Null, Str(ValidationMessage)})

C13_Witness ==
  /\ loading
  /\ error = Null
  /\ Len(settled) = 1 /\ ~settled[1].ok
  /\ last.op = "analyze" /\ last.id = 2

\* C14: when handleAnalyze is invoked only while the button is enabled, at
\* most one request is in flight in every state, and loading is true
\* exactly when that one request is in flight.
C14_ButtonSerialises ==
  /\ Cardinality(inflight) <= 1
  /\ loading <=> Cardinality(inflight) = 1

C14_Witness ==
  /\ loading
  /\ Cardinality(inflight) = 1
  /\ Len(settled) = 1
  /\ calls = 2

====
